---------------------------- MODULE Spec2Model ----------------------------
(***************************************************************************)
(* A model of src/main.go of Plezo/cryptobot: a Discord bot that scans     *)
(* messages for Solana addresses, looks the account up over RPC and        *)
(* replies with a wallet, contract or token-analysis embed.                *)
(*                                                                         *)
(* Strings are sequences of one-character strings, so that the regular     *)
(* expressions, the validation and the formatting are computed character   *)
(* by character as the code does.                                          *)
(***************************************************************************)
EXTENDS Integers, Sequences, FiniteSets, TLC

VARIABLES
    pc,            \* position of the handler / function being modelled
    content,       \* m.Content, the message text
    selfAuthored,  \* m.Author.ID == s.State.User.ID
    explorerIdx,   \* index of the explorer tried by the loop of line 122
    foundInURL,    \* messageCreate's local foundInURL
    matches,       \* messageCreate's local matches (line 136)
    matchIdx,      \* index of the loop of line 138
    processed,     \* messageCreate's local processed (its keys set to true)
    handled,       \* the addresses passed to handleAddress, in call order
    decodable,     \* solana.PublicKeyFromBase58(address) returns no error
    acc,           \* what client.GetAccountInfo gives handleAddress (line 157)
    mintAcc,       \* what client.GetAccountInfo gives analyzeToken (line 250)
    accounts,      \* what client.GetTokenLargestAccounts gives (line 268)
    decimals,      \* analyzeToken's local decimals
    holders,       \* analyzeToken's local holders
    totalSupply,   \* analyzeToken's local totalSupply
    analysis,      \* the *TokenAnalysis analyzeToken returns, NoAnalysis before
    tokenErr,      \* analyzeToken returned an error
    panic,         \* the run-time panic that ended the process, "" if none
    replies,       \* the embeds sent with ChannelMessageSendEmbedReply, in order
    sorted,        \* calculateBundlingScore's argument, a sorted holder list
    score,         \* calculateBundlingScore's result, NoScore before
    amount,        \* formatTokenAmount's argument amount
    fmtDecimals,   \* formatTokenAmount's argument decimals
    formatted      \* formatTokenAmount's result, NoString before

msgVars == << content, selfAuthored, explorerIdx, foundInURL, matches,
              matchIdx, processed, handled >>

rpcVars == << decodable, acc, mintAcc, accounts >>

tokenVars == << decimals, holders, totalSupply, analysis, tokenErr >>

addrVars == << rpcVars, tokenVars, panic, replies >>

scoreVars == << sorted, score >>

fmtVars == << amount, fmtDecimals, formatted >>

vars == << pc, msgVars, addrVars, scoreVars, fmtVars >>

---------------------------------------------------------------------------
(* Program constants.                                                      *)

\* {32,44} of the patterns (lines 55, 60, 65, 70) and of line 229
MinAddrLen == 32
MaxAddrLen == 44

\* the character class [1-9A-HJ-NP-Za-km-z] of the patterns
Base58Class ==
   {"1", "2", "3", "4", "5", "6", "7", "8", "9"}
   \cup {"A", "B", "C", "D", "E", "F", "G", "H"}
   \cup {"J", "K", "L", "M", "N"}
   \cup {"P", "Q", "R", "S", "T", "U", "V", "W", "X", "Y", "Z"}
   \cup {"a", "b", "c", "d", "e", "f", "g", "h", "i", "j", "k"}
   \cup {"m", "n", "o", "p", "q", "r", "s", "t", "u", "v", "w", "x", "y", "z"}

\* validChars of validateSolanaAddress (line 233)
validChars ==
   << "1", "2", "3", "4", "5", "6", "7", "8", "9", "A", "B", "C", "D", "E", "F", "G",
      "H", "J", "K", "L", "M", "N", "P", "Q", "R", "S", "T", "U", "V", "W", "X", "Y",
      "Z", "a", "b", "c", "d", "e", "f", "g", "h", "i", "j", "k", "m", "n", "o", "p",
      "q", "r", "s", "t", "u", "v", "w", "x", "y", "z" >>

\* the literal part of each explorer's URLRegex (the escaped dots and the
\* question mark stand for themselves)
SolscanLit ==
   << "s", "o", "l", "s", "c", "a", "n", ".", "i", "o", "/", "a", "c", "c", "o", "u",
      "n", "t", "/" >>

BullXLit ==
   << "b", "u", "l", "l", "x", ".", "i", "o", "/", "t", "e", "r", "m", "i", "n", "a",
      "l", "?", "c", "h", "a", "i", "n", "I", "d", "=", "1", "3", "9", "9", "8", "1",
      "1", "1", "4", "9", "&", "a", "d", "d", "r", "e", "s", "s", "=" >>

PhotonLit ==
   << "p", "h", "o", "t", "o", "n", "-", "s", "o", "l", ".", "t", "i", "n", "y", "a",
      "s", "t", "r", "o", ".", "i", "o", "/", "e", "n", "/", "l", "p", "/" >>

\* var explorers, in configuration order
explorers ==
   << [Name |-> "Solscan", Lit |-> SolscanLit],
      [Name |-> "BullX",   Lit |-> BullXLit],
      [Name |-> "Photon",  Lit |-> PhotonLit] >>

---------------------------------------------------------------------------
(* Bounds of the model and the message texts it draws.                     *)

\* a message text is the concatenation of at most MaxPieces pieces
MaxPieces == 3

Repeat(c, n) == [k \in 1..n |-> c]

\* the pieces: a bare explorer URL prefix (what follows it is the next piece),
\* two complete explorer URLs, two address-shaped words followed by a space,
\* a run one character too short to be an address (it lengthens the run of
\* the next piece), and a character outside the base58 alphabet
Pieces ==
   { SolscanLit,
     BullXLit \o Repeat("b", MinAddrLen),
     PhotonLit \o Repeat("A", MinAddrLen),
     Repeat("A", MinAddrLen) \o << " " >>,
     Repeat("b", MinAddrLen) \o << " " >>,
     Repeat("A", MinAddrLen - 1),
     << "0" >> }

RECURSIVE Concat(_)
Concat(ps) == IF ps = << >> THEN << >> ELSE Head(ps) \o Concat(Tail(ps))

Texts == { Concat(ps) : ps \in UNION { [1..n -> Pieces] : n \in 0..MaxPieces } }

---------------------------------------------------------------------------
(* The regular expressions, as regexp matches them: leftmost match, the    *)
(* repetition {32,44} greedy.                                              *)

\* the number of characters of the class from position i on, at most cap
\* (the greedy repetition takes as many as it can)
ClassRun(text, i, cap) ==
    CHOOSE n \in 0..cap :
        /\ \A k \in 0..(n - 1) : i + k <= Len(text) /\ text[i + k] \in Base58Class
        /\ \/ n = cap
           \/ i + n > Len(text)
           \/ text[i + n] \notin Base58Class

LitAt(text, i, lit) ==
    /\ i + Len(lit) - 1 <= Len(text)
    /\ text[i] = lit[1]
    /\ SubSeq(text, i, i + Len(lit) - 1) = lit

\* the positions from i on where the explorer's pattern matches
SubmatchStarts(lit, text, i) ==
    { x \in i..Len(text) :
        LitAt(text, x, lit) /\ ClassRun(text, x + Len(lit), MaxAddrLen) >= MinAddrLen }

\* URLRegex.FindStringSubmatch(text): << whole, group 1 >> of the leftmost
\* match, << >> (nil) without a match
SubmatchFrom(lit, text, i) ==
    LET starts == SubmatchStarts(lit, text, i)
    IN  IF starts = {} THEN << >>
        ELSE LET x == CHOOSE y \in starts : \A z \in starts : y <= z
                 j == x + Len(lit)
                 n == ClassRun(text, j, MaxAddrLen)
             IN  << SubSeq(text, x, j + n - 1), SubSeq(text, j, j + n - 1) >>

FindStringSubmatch(explorer, text) == SubmatchFrom(explorer.Lit, text, 1)

\* the positions from i on where solanaAddressPattern matches
AddressStarts(text, i) ==
    { x \in i..Len(text) :
        text[x] \in Base58Class /\ ClassRun(text, x, MinAddrLen) >= MinAddrLen }

\* solanaAddressPattern.FindAllString(text, -1): the successive leftmost
\* non-overlapping matches, each search starting where the last match ended
RECURSIVE FindAllFrom(_, _)
FindAllFrom(text, i) ==
    LET starts == AddressStarts(text, i)
    IN  IF starts = {} THEN << >>
        ELSE LET x == CHOOSE y \in starts : \A z \in starts : y <= z
                 n == ClassRun(text, x, MaxAddrLen)
             IN  << SubSeq(text, x, x + n - 1) >> \o FindAllFrom(text, x + n)

FindAllString(text) == FindAllFrom(text, 1)

\* strings.ContainsRune(validChars, char)
ContainsRune(s, char) == \E k \in 1..Len(s) : s[k] = char

validateSolanaAddress(address) ==
    IF Len(address) < MinAddrLen \/ Len(address) > MaxAddrLen
    THEN FALSE
    ELSE \A k \in 1..Len(address) : ContainsRune(validChars, address[k])

---------------------------------------------------------------------------
(* Numbers.  uint64 is modelled by an unsigned word of UintBits bits (the  *)
(* integers of TLC are 32 bits wide), with the wrap-around of Go's         *)
(* unsigned arithmetic.  float64 is modelled by exact fractions together   *)
(* with the two special values a division by zero gives, +Inf and NaN;     *)
(* rounding is not modelled.                                               *)

\* the width of the word that stands for uint64
UintBits == 4

UintModulus == 2 ^ UintBits

MaxUint == UintModulus - 1

\* a + b in uint64 (line 289)
UintAdd(a, b) == (a + b) % UintModulus

Fraction(n, d) == [kind |-> "fraction", num |-> n, den |-> d]

PosInf == [kind |-> "inf", num |-> 1, den |-> 0]

NaN == [kind |-> "nan", num |-> 0, den |-> 0]

\* float64(n) of an unsigned integer
Float(n) == Fraction(n, 1)

\* x / y of two non-negative float64
FloatDiv(x, y) ==
    IF x.kind = "nan" \/ y.kind = "nan" THEN NaN
    ELSE IF x.kind = "inf" THEN (IF y.kind = "inf" THEN NaN ELSE PosInf)
    ELSE IF y.kind = "inf" THEN Fraction(0, 1)
    ELSE IF y.num = 0 THEN (IF x.num = 0 THEN NaN ELSE PosInf)
    ELSE Fraction(x.num * y.den, x.den * y.num)

\* x * y of two non-negative float64
FloatMul(x, y) ==
    IF x.kind = "nan" \/ y.kind = "nan" THEN NaN
    ELSE IF x.kind = "inf" \/ y.kind = "inf"
         THEN (IF (x.kind = "fraction" /\ x.num = 0) \/ (y.kind = "fraction" /\ y.num = 0)
               THEN NaN ELSE PosInf)
    ELSE Fraction(x.num * y.num, x.den * y.den)

\* x + y of two non-negative float64
FloatAdd(x, y) ==
    IF x.kind = "nan" \/ y.kind = "nan" THEN NaN
    ELSE IF x.kind = "inf" \/ y.kind = "inf" THEN PosInf
    ELSE IF x.den = y.den THEN Fraction(x.num + y.num, x.den)
    ELSE Fraction(x.num * y.den + y.num * x.den, x.den * y.den)

\* x > y: false when either is NaN
FloatGreater(x, y) ==
    IF x.kind = "nan" \/ y.kind = "nan" THEN FALSE
    ELSE IF y.kind = "inf" THEN FALSE
    ELSE IF x.kind = "inf" THEN TRUE
    ELSE x.num * y.den > y.num * x.den

\* x < y: false when either is NaN
FloatLess(x, y) == FloatGreater(y, x)

\* the characters of the decimal digits, by value
DigitChars == << "0", "1", "2", "3", "4", "5", "6", "7", "8", "9" >>

IsDigit(c) == \E k \in 1..Len(DigitChars) : DigitChars[k] = c

DigitValue(c) == (CHOOSE k \in 1..Len(DigitChars) : DigitChars[k] = c) - 1

\* strconv.FormatUint(n, 10), fmt.Sprintf("%d", n)
RECURSIVE FormatUint(_)
FormatUint(n) ==
    IF n < 10 THEN << DigitChars[n + 1] >>
    ELSE Append(FormatUint(n \div 10), DigitChars[(n % 10) + 1])

RECURSIVE DecimalValue(_)
DecimalValue(s) ==
    IF s = << >> THEN 0
    ELSE 10 * DecimalValue(SubSeq(s, 1, Len(s) - 1)) + DigitValue(s[Len(s)])

\* strconv.ParseUint(s, 10, 64): a syntax error for the empty string and for
\* any character that is no digit, a range error above the largest value
ParseUint(s) ==
    IF s = << >> \/ \E k \in 1..Len(s) : ~IsDigit(s[k])
    THEN [err |-> TRUE, value |-> 0]
    ELSE IF DecimalValue(s) > MaxUint
         THEN [err |-> TRUE, value |-> MaxUint]
         ELSE [err |-> FALSE, value |-> DecimalValue(s)]

\* func min (lines 463-468)
min(a, b) == IF a < b THEN a ELSE b

---------------------------------------------------------------------------
(* The values the variables of a handler hold while another one is         *)
(* modelled, and before it has run.                                        *)

\* a *rpc.GetAccountInfoResult and error: result is "nil" (a nil pointer),
\* "nilValue" (Value is nil) or "value"
Lookup(err, result, executable, lamports, data) ==
    [err |-> err, result |-> result, Executable |-> executable,
     Lamports |-> lamports, Data |-> data]

NoLookup == Lookup(FALSE, "nil", FALSE, 0, << >>)

\* a *rpc.GetTokenLargestAccountsResult and error
NoAccounts == [err |-> FALSE, Value |-> << >>]

\* the zero TokenAnalysis
NoAnalysis ==
    [TotalSupply |-> 0, Decimals |-> 0, HolderCount |-> 0, TopHolders |-> << >>,
     InsiderPercent |-> Float(0), BundlingScore |-> Float(0),
     SuspiciousFlags |-> << >>]

MsgIdle ==
    /\ content = << >>
    /\ selfAuthored = FALSE
    /\ explorerIdx = 1
    /\ foundInURL = FALSE
    /\ matches = << >>
    /\ matchIdx = 1
    /\ processed = {}
    /\ handled = << >>

TokenIdle ==
    /\ decimals = 0
    /\ holders = << >>
    /\ totalSupply = 0
    /\ analysis = NoAnalysis
    /\ tokenErr = FALSE

AddrIdle ==
    /\ decodable = TRUE
    /\ acc = NoLookup
    /\ mintAcc = NoLookup
    /\ accounts = NoAccounts
    /\ TokenIdle
    /\ panic = ""
    /\ replies = << >>

ScoreIdle ==
    /\ sorted = << >>
    /\ score = Float(0)

FmtIdle ==
    /\ amount = 0
    /\ fmtDecimals = 0
    /\ formatted = << >>

---------------------------------------------------------------------------
(* messageCreate (lines 115-149).  handleAddress is a call: it either      *)
(* returns or panics, and a panic in a discordgo handler goroutine ends the *)
(* process, so the loops stop there.                                       *)

\* what a call of handleAddress can do to its caller: return, or panic as
\* FallBack and ParseDecimals below do
CallOutcomes == {"returned", "panicked"}

InitMsg ==
    /\ pc = "messageCreate"
    /\ content \in Texts
    /\ selfAuthored \in BOOLEAN
    /\ explorerIdx = 1
    /\ foundInURL = FALSE
    /\ matches = << >>
    /\ matchIdx = 1
    /\ processed = {}
    /\ handled = << >>
    /\ AddrIdle
    /\ ScoreIdle
    /\ FmtIdle

\* lines 116-118
SelfMessage ==
    /\ pc = "messageCreate"
    /\ selfAuthored
    /\ pc' = "done"
    /\ UNCHANGED msgVars
    /\ UNCHANGED << addrVars, scoreVars, fmtVars >>

\* lines 116-121
OtherMessage ==
    /\ pc = "messageCreate"
    /\ ~selfAuthored
    /\ pc' = "urlLoop"
    /\ foundInURL' = FALSE
    /\ explorerIdx' = 1
    /\ UNCHANGED << content, selfAuthored, matches, matchIdx, processed, handled >>
    /\ UNCHANGED << addrVars, scoreVars, fmtVars >>

\* the condition of lines 124-126 for the explorer at explorerIdx
ExplorerYields(text, idx) ==
    LET m == FindStringSubmatch(explorers[idx], text)
    IN  Len(m) > 1 /\ validateSolanaAddress(m[2])

\* ExplorerHit without the break of line 129: the loop goes on to the next explorer
ExplorerHitNoBreak ==
    /\ pc = "urlLoop"
    /\ explorerIdx <= Len(explorers)
    /\ ExplorerYields(content, explorerIdx)
    /\ LET m == FindStringSubmatch(explorers[explorerIdx], content)
       IN  handled' = Append(handled, m[2])
    /\ \E outcome \in CallOutcomes :
          IF outcome = "panicked"
          THEN pc' = "crashed" /\ UNCHANGED << foundInURL, explorerIdx >>
          ELSE pc' = "urlLoop" /\ foundInURL' = TRUE /\ explorerIdx' = explorerIdx + 1
    /\ UNCHANGED << content, selfAuthored, matches, matchIdx, processed >>
    /\ UNCHANGED << addrVars, scoreVars, fmtVars >>

\* lines 122-130: the explorer's pattern gives a valid address
ExplorerHit ==
    /\ pc = "urlLoop"
    /\ explorerIdx <= Len(explorers)
    /\ ExplorerYields(content, explorerIdx)
    /\ LET m == FindStringSubmatch(explorers[explorerIdx], content)
       IN  handled' = Append(handled, m[2])
    /\ \E outcome \in CallOutcomes :
          IF outcome = "panicked"
          THEN pc' = "crashed" /\ UNCHANGED foundInURL
          ELSE pc' = "afterUrlLoop" /\ foundInURL' = TRUE
    /\ UNCHANGED << content, selfAuthored, explorerIdx, matches, matchIdx, processed >>
    /\ UNCHANGED << addrVars, scoreVars, fmtVars >>

\* lines 122-131: no match, next explorer
ExplorerMiss ==
    /\ pc = "urlLoop"
    /\ explorerIdx <= Len(explorers)
    /\ ~ExplorerYields(content, explorerIdx)
    /\ explorerIdx' = explorerIdx + 1
    /\ UNCHANGED << pc, content, selfAuthored, foundInURL, matches, matchIdx,
                    processed, handled >>
    /\ UNCHANGED << addrVars, scoreVars, fmtVars >>

\* line 122: the range is exhausted
ExplorersExhausted ==
    /\ pc = "urlLoop"
    /\ explorerIdx > Len(explorers)
    /\ pc' = "afterUrlLoop"
    /\ UNCHANGED msgVars
    /\ UNCHANGED << addrVars, scoreVars, fmtVars >>

\* line 135, foundInURL: nothing more to do
SkipBareScan ==
    /\ pc = "afterUrlLoop"
    /\ foundInURL
    /\ pc' = "done"
    /\ UNCHANGED msgVars
    /\ UNCHANGED << addrVars, scoreVars, fmtVars >>

\* lines 135-137
StartBareScan ==
    /\ pc = "afterUrlLoop"
    /\ ~foundInURL
    /\ matches' = FindAllString(content)
    /\ processed' = {}
    /\ matchIdx' = 1
    /\ pc' = "bareLoop"
    /\ UNCHANGED << content, selfAuthored, explorerIdx, foundInURL, handled >>
    /\ UNCHANGED << addrVars, scoreVars, fmtVars >>

\* AlreadyProcessed with the map never consulted
AlreadyProcessedNever(seen, address) == FALSE

\* line 139: processed[address]
AlreadyProcessed(seen, address) == address \in seen

\* lines 138-141: a repeated match
BareDuplicate ==
    /\ pc = "bareLoop"
    /\ matchIdx <= Len(matches)
    /\ AlreadyProcessed(processed, matches[matchIdx])
    /\ matchIdx' = matchIdx + 1
    /\ UNCHANGED << pc, content, selfAuthored, explorerIdx, foundInURL, matches,
                    processed, handled >>
    /\ UNCHANGED << addrVars, scoreVars, fmtVars >>

\* lines 138-147: a new match is marked processed and, if it validates, handled
BareNew ==
    /\ pc = "bareLoop"
    /\ matchIdx <= Len(matches)
    /\ ~AlreadyProcessed(processed, matches[matchIdx])
    /\ processed' = processed \cup { matches[matchIdx] }
    /\ matchIdx' = matchIdx + 1
    /\ IF validateSolanaAddress(matches[matchIdx])
       THEN /\ handled' = Append(handled, matches[matchIdx])
            /\ \E outcome \in CallOutcomes :
                  pc' = IF outcome = "panicked" THEN "crashed" ELSE "bareLoop"
       ELSE UNCHANGED << pc, handled >>
    /\ UNCHANGED << content, selfAuthored, explorerIdx, foundInURL, matches >>
    /\ UNCHANGED << addrVars, scoreVars, fmtVars >>

\* line 138: the range is exhausted
BareExhausted ==
    /\ pc = "bareLoop"
    /\ matchIdx > Len(matches)
    /\ pc' = "done"
    /\ UNCHANGED msgVars
    /\ UNCHANGED << addrVars, scoreVars, fmtVars >>

Next ==
    \/ SelfMessage
    \/ OtherMessage
    \/ ExplorerHit
    \/ ExplorerMiss
    \/ ExplorersExhausted
    \/ SkipBareScan
    \/ StartBareScan
    \/ BareDuplicate
    \/ BareNew
    \/ BareExhausted

Spec == InitMsg /\ [][Next]_vars

---------------------------------------------------------------------------
(* Properties of messageCreate.                                            *)

\* the pattern of the explorer with literal lit matches text at position i
\* with a group of n characters
PatternMatchAt(lit, text, i, n) ==
    /\ LitAt(text, i, lit)
    /\ i + Len(lit) + n - 1 <= Len(text)
    /\ \A k \in 0..(n - 1) : text[i + Len(lit) + k] \in Base58Class

PatternMatches(lit, text) ==
    \E i \in 1..Len(text) : PatternMatchAt(lit, text, i, MinAddrLen)

\* the address the pattern captures: at the leftmost position where it
\* matches, the longest group of at most MaxAddrLen characters
CapturedAddress(lit, text) ==
    LET i == CHOOSE x \in 1..Len(text) :
                 /\ PatternMatchAt(lit, text, x, MinAddrLen)
                 /\ \A y \in 1..(x - 1) : ~PatternMatchAt(lit, text, y, MinAddrLen)
        n == CHOOSE x \in MinAddrLen..MaxAddrLen :
                 /\ PatternMatchAt(lit, text, i, x)
                 /\ x < MaxAddrLen => ~PatternMatchAt(lit, text, i, x + 1)
    IN  SubSeq(text, i + Len(lit), i + Len(lit) + n - 1)

\* Solscan, BullX, Photon
ConfiguredOrder == << SolscanLit, BullXLit, PhotonLit >>

MatchingExplorers == { k \in 1..3 : PatternMatches(ConfiguredOrder[k], content) }

FirstMatchingExplorer ==
    CHOOSE k \in MatchingExplorers : \A j \in MatchingExplorers : k <= j

MessageOver == pc \in {"done", "crashed"}

\* C3: when an explorer URL pattern matches the text of a message of another
\* author, the only address ever passed to handleAddress is the one captured
\* by the first matching explorer in the order Solscan, BullX, Photon, and by
\* the end of messageCreate it has been passed exactly once; no bare-text
\* match is handled.
C3_FirstExplorerOnly ==
    (~selfAuthored /\ MatchingExplorers # {}) =>
        LET address == CapturedAddress(ConfiguredOrder[FirstMatchingExplorer], content)
        IN  /\ handled \in { << >>, << address >> }
            /\ MessageOver => handled = << address >>
            /\ matches = << >>

\* C3 witness: two explorers match, the text also holds a bare-text match that
\* is another address, and messageCreate has returned
C3_Witness ==
    /\ pc = "done"
    /\ ~selfAuthored
    /\ Cardinality(MatchingExplorers) >= 2
    /\ Len(handled) = 1
    /\ \E i \in 1..Len(FindAllString(content)) : FindAllString(content)[i] # handled[1]

\* the syntactic validity of an address: length and alphabet
ValidAddress(a) ==
    /\ Len(a) >= 32
    /\ Len(a) <= 44
    /\ \A k \in 1..Len(a) : a[k] \in Base58Class

\* the index of the first occurrence of a among the pattern matches
FirstOccurrence(a) ==
    CHOOSE i \in 1..Len(matches) :
        matches[i] = a /\ \A j \in 1..(i - 1) : matches[j] # a

\* the bare-text scan has started (every explorer failed to yield an address)
InBareScan == pc \in {"bareLoop", "done", "crashed"} /\ explorerIdx > Len(explorers)

\* C4: the addresses passed to handleAddress hold no duplicate and are all
\* syntactically valid; in the bare-text scan they are pattern matches, in the
\* order of their first occurrence, and when messageCreate returns every
\* pattern match has been handled.
C4_HandledDistinctValidOrdered ==
    /\ \A i, j \in 1..Len(handled) : i # j => handled[i] # handled[j]
    /\ \A i \in 1..Len(handled) : ValidAddress(handled[i])
    /\ InBareScan =>
          /\ \A i \in 1..Len(handled) : \E k \in 1..Len(matches) : matches[k] = handled[i]
          /\ \A i, j \in 1..Len(handled) :
                 i < j => FirstOccurrence(handled[i]) < FirstOccurrence(handled[j])
    /\ (InBareScan /\ pc = "done") =>
          \A k \in 1..Len(matches) : \E i \in 1..Len(handled) : handled[i] = matches[k]

\* C4 witness: a bare-text scan whose matches repeat an address after another
\* one has returned with two addresses handled
C4_Witness ==
    /\ pc = "done"
    /\ InBareScan
    /\ Len(matches) >= 3
    /\ matches[1] = matches[3]
    /\ matches[1] # matches[2]
    /\ Len(handled) = 2

---------------------------------------------------------------------------
(* calculateBundlingScore (lines 376-395).                                 *)

\* i < 10 of line 387
BundlingWindow == 10

\* SimilarRatio with the lower bound included
SimilarRatioInclusive(ratio) ==
    ~FloatLess(ratio, Fraction(8, 10)) /\ ratio.kind # "nan"
    /\ FloatLess(ratio, Fraction(12, 10))

\* ratio > 0.8 && ratio < 1.2 (line 389)
SimilarRatio(ratio) ==
    FloatGreater(ratio, Fraction(8, 10)) /\ FloatLess(ratio, Fraction(12, 10))

\* the loop of lines 387-392 from Go index i on (Go index i is element i + 1)
RECURSIVE SimilarityLoop(_, _, _)
SimilarityLoop(hs, i, similarityScore) ==
    IF i < Len(hs) /\ i < BundlingWindow
    THEN LET ratio == FloatDiv(Float(hs[i + 1].Amount), Float(hs[1].Amount))
         IN  SimilarityLoop(hs, i + 1,
                 IF SimilarRatio(ratio)
                 THEN FloatAdd(similarityScore, Fraction(1, 10))
                 ELSE similarityScore)
    ELSE similarityScore

calculateBundlingScore(hs) ==
    IF Len(hs) < 2 THEN Float(0) ELSE SimilarityLoop(hs, 1, Float(0))

---------------------------------------------------------------------------
(* handleAddress (lines 151-184) and the analyzeToken it calls (lines      *)
(* 243-330).  The three RPC results are inputs.                            *)

\* len(mintData) >= 44 of line 262
MintSizeCheck == 44

\* mintData[44] of line 263
DecimalsOffset == 44

\* the top 5 of lines 309 and 317
InsiderTop == 5

\* the 1e9 of line 181
LamportsPerSol == 1000000000

\* the size of a token mint account, and the decimals stored in it
MintAccountSize == 82

\* an account's data of n bytes; in a mint the byte at DecimalsOffset holds
\* the decimals
Bytes(n, d) == [k \in 1..n |-> IF k = DecimalsOffset + 1 THEN d ELSE 0]

\* the largest-holder lists have at most MaxEntries entries drawn from all
\* the amount texts, or at most MaxLongEntries entries drawn from two
MaxEntries == 3

MaxLongEntries == 6

\* the amount strings of the entries: numbers of the word's range, one above
\* the range, and one that is no number
AmountTexts ==
    { FormatUint(0), FormatUint(1), FormatUint(UintModulus \div 2),
      FormatUint(MaxUint), FormatUint(MaxUint + 1), << "1", "x" >> }

LongAmountTexts == { FormatUint(1), FormatUint(2) }

AmountLists ==
    UNION { [1..n -> AmountTexts] : n \in 0..MaxEntries }
    \cup UNION { [1..n -> LongAmountTexts] : n \in (MaxEntries + 1)..MaxLongEntries }

\* accounts.Value: the entry at position k has the k-th holder's address
LargestAccounts(texts) ==
    [err |-> FALSE,
     Value |-> [k \in 1..Len(texts) |-> [Address |-> k, Amount |-> texts[k]]]]

AccountsError == [err |-> TRUE, Value |-> << >>]

LookupError == Lookup(TRUE, "nil", FALSE, 0, << >>)

\* the account lookups of handleAddress
AccountLookups ==
    { LookupError, NoLookup, Lookup(FALSE, "nilValue", FALSE, 0, << >>) }
    \cup { Lookup(FALSE, "value", e, 5, Bytes(n, 0)) :
              e \in BOOLEAN, n \in {0, MintAccountSize} }

\* the mint lookups of analyzeToken
MintLookups ==
    { LookupError, NoLookup, Lookup(FALSE, "nilValue", FALSE, 0, << >>) }
    \cup { Lookup(FALSE, "value", FALSE, 5, Bytes(n, 9)) :
              n \in {0, MintSizeCheck - 1, MintSizeCheck, MintSizeCheck + 1,
                     MintAccountSize} }

\* len(acc.Value.Data.GetBinary()) > 0 behind the nil checks of line 169
HasData(a) == a.result = "value" /\ Len(a.Data) > 0

\* the inputs: the lookups that never reach analyzeToken need no further
\* input, every mint lookup is tried with a failing and a short holder list,
\* and every holder list with a well-formed mint
Scenarios ==
    { << d, a, NoLookup, NoAccounts >> :
         d \in BOOLEAN, a \in { x \in AccountLookups : ~HasData(x) } }
    \cup { << FALSE, a, NoLookup, NoAccounts >> :
         a \in { x \in AccountLookups : HasData(x) } }
    \cup { << TRUE, a, m, l >> :
         a \in { x \in AccountLookups : HasData(x) },
         m \in MintLookups,
         l \in { AccountsError,
                 LargestAccounts(<< FormatUint(1), FormatUint(2) >>) } }
    \cup { << TRUE, a, Lookup(FALSE, "value", FALSE, 5, Bytes(MintAccountSize, 9)),
              LargestAccounts(l) >> :
         a \in { x \in AccountLookups : HasData(x) },
         l \in AmountLists }

InitAddr ==
    /\ pc = "handleAddress"
    /\ \E sc \in Scenarios :
          /\ decodable = sc[1]
          /\ acc = sc[2]
          /\ mintAcc = sc[3]
          /\ accounts = sc[4]
    /\ TokenIdle
    /\ panic = ""
    /\ replies = << >>
    /\ MsgIdle
    /\ ScoreIdle
    /\ FmtIdle

Reply(kind, balance, a) == [kind |-> kind, balance |-> balance, analysis |-> a]

\* lines 152-155
DecodeAddress ==
    /\ pc = "handleAddress"
    /\ pc' = IF decodable THEN "getAccountInfo" ELSE "done"
    /\ UNCHANGED << msgVars, addrVars, scoreVars, fmtVars >>

\* lines 157-161: the lookup fails, nothing is sent
GetAccountInfoFails ==
    /\ pc = "getAccountInfo"
    /\ acc.err
    /\ pc' = "done"
    /\ UNCHANGED << msgVars, addrVars, scoreVars, fmtVars >>

\* lines 157-169: the lookup returns; line 169 decides whether to try the
\* token analysis
GetAccountInfoReturns ==
    /\ pc = "getAccountInfo"
    /\ ~acc.err
    /\ pc' = IF HasData(acc) THEN "analyzeToken" ELSE "fallBack"
    /\ UNCHANGED << msgVars, addrVars, scoreVars, fmtVars >>

\* lines 250-256: the mint lookup fails, analyzeToken returns the error
MintLookupFails ==
    /\ pc = "analyzeToken"
    /\ mintAcc.err
    /\ tokenErr' = TRUE
    /\ pc' = "fallBack"
    /\ UNCHANGED << decimals, holders, totalSupply, analysis >>
    /\ UNCHANGED << msgVars, rpcVars, panic, replies, scoreVars, fmtVars >>

\* the index expression mintData[44] of line 263: Go panics outside the slice
IndexInRange(data, index) == index < Len(data)

\* lines 258-265
ParseDecimals ==
    /\ pc = "analyzeToken"
    /\ ~mintAcc.err
    /\ IF mintAcc.result = "value" /\ Len(mintAcc.Data) >= MintSizeCheck
       THEN IF IndexInRange(mintAcc.Data, DecimalsOffset)
            THEN /\ decimals' = mintAcc.Data[DecimalsOffset + 1]
                 /\ pc' = "largestAccounts"
                 /\ UNCHANGED panic
            ELSE /\ panic' = "index out of range"
                 /\ pc' = "panicked"
                 /\ UNCHANGED decimals
       ELSE /\ decimals' = 0
            /\ pc' = "largestAccounts"
            /\ UNCHANGED panic
    /\ UNCHANGED << holders, totalSupply, analysis, tokenErr >>
    /\ UNCHANGED << msgVars, rpcVars, replies, scoreVars, fmtVars >>

\* lines 268-276: the holder lookup fails, analyzeToken returns the error
LargestAccountsFails ==
    /\ pc = "largestAccounts"
    /\ accounts.err
    /\ tokenErr' = TRUE
    /\ pc' = "fallBack"
    /\ UNCHANGED << decimals, holders, totalSupply, analysis >>
    /\ UNCHANGED << msgVars, rpcVars, panic, replies, scoreVars, fmtVars >>

\* the loop of lines 282-296 over the entries from k on: the holders and the
\* total so far
RECURSIVE ProcessEntries(_, _, _, _)
ProcessEntries(entries, k, hs, total) ==
    IF k > Len(entries) THEN [holders |-> hs, totalSupply |-> total]
    ELSE LET parsed == ParseUint(entries[k].Amount)
         IN  IF parsed.err
             THEN ProcessEntries(entries, k + 1, hs, total)
             ELSE ProcessEntries(entries, k + 1,
                      Append(hs, [Address |-> entries[k].Address,
                                  Amount |-> parsed.value,
                                  Percent |-> Float(0)]),
                      UintAdd(total, parsed.value))

\* line 300
PercentOf(holderAmount, total) ==
    FloatMul(FloatDiv(Float(holderAmount), Float(total)), Float(100))

\* lines 278-301: the holders are parsed and summed, then given their percent
ProcessHolders ==
    /\ pc = "largestAccounts"
    /\ ~accounts.err
    /\ LET r == ProcessEntries(accounts.Value, 1, << >>, 0)
       IN  /\ totalSupply' = r.totalSupply
           /\ holders' = [k \in 1..Len(r.holders) |->
                             [r.holders[k] EXCEPT
                                 !.Percent = PercentOf(r.holders[k].Amount, r.totalSupply)]]
    /\ pc' = "sort"
    /\ UNCHANGED << decimals, analysis, tokenErr >>
    /\ UNCHANGED << msgVars, rpcVars, panic, replies, scoreVars, fmtVars >>

\* the less function of line 304
Less(a, b) == a.Amount > b.Amount

\* what sort.Slice may leave: the same elements, none before one that is less
\* than it.  sort.Slice is not stable: the order of equal elements is any.
SortSliceResults(hs) ==
    { [k \in 1..Len(hs) |-> hs[p[k]]] : p \in Permutations(1..Len(hs)) }

IsSortedBy(hs) ==
    \A i, j \in 1..Len(hs) : i < j => ~Less(hs[j], hs[i])

\* lines 303-305
SortHolders ==
    /\ pc = "sort"
    /\ \E hs \in SortSliceResults(holders) :
          /\ IsSortedBy(hs)
          /\ holders' = hs
    /\ pc' = "analysis"
    /\ UNCHANGED << decimals, totalSupply, analysis, tokenErr >>
    /\ UNCHANGED << msgVars, rpcVars, panic, replies, scoreVars, fmtVars >>

\* the loop of lines 309-311 from Go index i on
RECURSIVE InsiderLoop(_, _, _)
InsiderLoop(hs, i, insiderPercent) ==
    IF i < Len(hs) /\ i < InsiderTop
    THEN InsiderLoop(hs, i + 1, FloatAdd(insiderPercent, hs[i + 1].Percent))
    ELSE insiderPercent

\* lines 322-327
Flags(insiderPercent, bundlingScore) ==
    (IF FloatGreater(insiderPercent, Float(50))
     THEN << "High insider ownership" >> ELSE << >>)
    \o (IF FloatGreater(bundlingScore, Fraction(7, 10))
        THEN << "Possible bundling detected" >> ELSE << >>)

\* lines 307-329
BuildAnalysis ==
    /\ pc = "analysis"
    /\ LET insiderPercent == InsiderLoop(holders, 0, Float(0))
           bundlingScore == calculateBundlingScore(holders)
       IN  analysis' =
              [TotalSupply |-> totalSupply,
               Decimals |-> decimals,
               HolderCount |-> Len(holders),
               TopHolders |-> SubSeq(holders, 1, min(InsiderTop, Len(holders))),
               InsiderPercent |-> insiderPercent,
               BundlingScore |-> bundlingScore,
               SuspiciousFlags |-> Flags(insiderPercent, bundlingScore)]
    /\ pc' = "sendTokenAnalysis"
    /\ UNCHANGED << decimals, holders, totalSupply, tokenErr >>
    /\ UNCHANGED << msgVars, rpcVars, panic, replies, scoreVars, fmtVars >>

\* lines 171-174: analyzeToken returned no error
SendTokenAnalysis ==
    /\ pc = "sendTokenAnalysis"
    /\ replies' = Append(replies, Reply("token", Float(0), analysis))
    /\ pc' = "done"
    /\ UNCHANGED << msgVars, rpcVars, tokenVars, panic, scoreVars, fmtVars >>

\* lines 177-183: acc.Value is dereferenced without the nil checks of line 169
FallBack ==
    /\ pc = "fallBack"
    /\ IF acc.result # "value"
       THEN /\ panic' = "nil pointer dereference"
            /\ pc' = "panicked"
            /\ UNCHANGED replies
       ELSE /\ replies' = Append(replies,
                 IF acc.Executable
                 THEN Reply("contract", Float(0), NoAnalysis)
                 ELSE Reply("wallet",
                            FloatDiv(Float(acc.Lamports), Float(LamportsPerSol)),
                            NoAnalysis))
            /\ pc' = "done"
            /\ UNCHANGED panic
    /\ UNCHANGED << msgVars, rpcVars, tokenVars, scoreVars, fmtVars >>

NextAddr ==
    \/ DecodeAddress
    \/ GetAccountInfoFails
    \/ GetAccountInfoReturns
    \/ MintLookupFails
    \/ ParseDecimals
    \/ LargestAccountsFails
    \/ ProcessHolders
    \/ SortHolders
    \/ BuildAnalysis
    \/ SendTokenAnalysis
    \/ FallBack

SpecAddr == InitAddr /\ [][NextAddr]_vars

---------------------------------------------------------------------------
(* calculateBundlingScore on its own: every sorted holder list of at most  *)
(* MaxSortedLen holders with amounts among BundleAmounts.                  *)

MaxSortedLen == 11

\* amounts whose ratios fall on, inside and outside the bounds 0.8 and 1.2
BundleAmounts == {0, 4, 5, 9, 10}

Holder(address, holderAmount) ==
    [Address |-> address, Amount |-> holderAmount, Percent |-> Float(0)]

\* the lists of at most n holders in non-increasing order of amount
RECURSIVE SortedLists(_)
SortedLists(n) ==
    IF n = 0 THEN { << >> }
    ELSE LET shorter == SortedLists(n - 1)
         IN  shorter \cup
             UNION { { Append(l, Holder(n, a)) :
                          a \in { y \in BundleAmounts : n = 1 \/ y <= l[n - 1].Amount } } :
                     l \in { x \in shorter : Len(x) = n - 1 } }

InitScore ==
    /\ pc = "calculateBundlingScore"
    /\ sorted \in SortedLists(MaxSortedLen)
    /\ score = Float(0)
    /\ MsgIdle
    /\ AddrIdle
    /\ FmtIdle

\* lines 376-395
CalculateBundlingScore ==
    /\ pc = "calculateBundlingScore"
    /\ score' = calculateBundlingScore(sorted)
    /\ pc' = "scored"
    /\ UNCHANGED << sorted, msgVars, addrVars, fmtVars >>

NextScore == CalculateBundlingScore

SpecScore == InitScore /\ [][NextScore]_vars


---------------------------------------------------------------------------
(* formatTokenAmount (lines 332-358) with addCommas (lines 360-373) and    *)
(* formatNumber (lines 471-498).                                           *)

\* the loop of lines 485-496 from Go index i of in on; k counts the digits
\* since the last comma, out is what has been written (the tail of the buffer)
RECURSIVE FormatNumberLoop(_, _, _, _)
FormatNumberLoop(in, i, k, out) ==
    LET written == << in[i + 1] >> \o out
    IN  IF i = 0 THEN written
        ELSE IF k + 1 = 3
             THEN FormatNumberLoop(in, i - 1, 0, << "," >> \o written)
             ELSE FormatNumberLoop(in, i - 1, k + 1, written)

\* lines 471-498; n < 0 is never true of a uint64, and the buffer of
\* len(in) + numOfCommas bytes is exactly what the loop writes
formatNumber(n) ==
    LET in == FormatUint(n)
    IN  FormatNumberLoop(in, Len(in) - 1, 0, << >>)

\* s[lo:hi] of Go
Slice(s, lo, hi) == SubSeq(s, lo + 1, hi)

\* the loop of lines 366-371 from Go index i on
RECURSIVE AddCommasLoop(_, _, _)
AddCommasLoop(s, i, result) ==
    IF i < Len(s)
    THEN AddCommasLoop(s, i + 3,
             (IF Len(result) > 0 THEN result \o << "," >> ELSE result)
             \o Slice(s, i, i + 3))
    ELSE result

\* lines 360-373
addCommas(s) ==
    LET start == IF Len(s) % 3 = 0 THEN 3 ELSE Len(s) % 3
    IN  AddCommasLoop(s, start, Slice(s, 0, start))

\* strings.TrimRight(s, cutset) for a cutset of one character
TrimRight(s, c) ==
    LET keep == CHOOSE n \in 0..Len(s) :
                    /\ n = 0 \/ s[n] # c
                    /\ \A k \in (n + 1)..Len(s) : s[k] = c
    IN  SubSeq(s, 1, keep)

\* strings.Split(s, sep) for a separator of one character
Split(s, sep) ==
    LET at == { k \in 1..Len(s) : s[k] = sep }
        nth(j) == CHOOSE k \in at : Cardinality({ x \in at : x < k }) = j - 1
        first(j) == IF j = 1 THEN 1 ELSE nth(j - 1) + 1
        last(j) == IF j = Cardinality(at) + 1 THEN Len(s) ELSE nth(j) - 1
    IN  [j \in 1..(Cardinality(at) + 1) |-> SubSeq(s, first(j), last(j))]

\* formatTokenAmount with only the zeros trimmed, not the bare decimal point
formatTokenAmountKeepsPoint(n, d) ==
    IF d = 0 THEN formatNumber(n)
    ELSE LET digits == FormatUint(n)
             full == IF d >= Len(digits)
                     THEN Repeat("0", d - Len(digits) + 1) \o digits
                     ELSE digits
             decimalPoint == Len(full) - d
             result == Slice(full, 0, decimalPoint) \o << "." >>
                       \o Slice(full, decimalPoint, Len(full))
             trimmed == TrimRight(result, "0")
             parts == Split(trimmed, ".")
             whole == addCommas(parts[1])
         IN  IF Len(parts) > 1 THEN whole \o << "." >> \o parts[2] ELSE whole

\* lines 332-358
formatTokenAmount(n, d) ==
    IF d = 0 THEN formatNumber(n)
    ELSE LET digits == FormatUint(n)
             full == IF d >= Len(digits)
                     THEN Repeat("0", d - Len(digits) + 1) \o digits
                     ELSE digits
             decimalPoint == Len(full) - d
             result == Slice(full, 0, decimalPoint) \o << "." >>
                       \o Slice(full, decimalPoint, Len(full))
             trimmed == TrimRight(TrimRight(result, "0"), ".")
             parts == Split(trimmed, ".")
             whole == addCommas(parts[1])
         IN  IF Len(parts) > 1 THEN whole \o << "." >> \o parts[2] ELSE whole

\* the largest uint8, the type of decimals
MaxUint8 == 255

\* the amounts 0..MaxFmtAmount and a few of seven and more digits, the
\* decimals 0..MaxFmtDecimals and the largest one
MaxFmtAmount == 1100

MaxFmtDecimals == 8

FmtAmounts == 0..MaxFmtAmount \cup {1234500, 1000000, 999999999, 2147483647}

FmtDecimals == 0..MaxFmtDecimals \cup {MaxUint8}

InitFmt ==
    /\ pc = "formatTokenAmount"
    /\ amount \in FmtAmounts
    /\ fmtDecimals \in FmtDecimals
    /\ formatted = << >>
    /\ MsgIdle
    /\ AddrIdle
    /\ ScoreIdle

FormatTokenAmount ==
    /\ pc = "formatTokenAmount"
    /\ formatted' = formatTokenAmount(amount, fmtDecimals)
    /\ pc' = "formatted"
    /\ UNCHANGED << amount, fmtDecimals, msgVars, addrVars, scoreVars >>

NextFmt == FormatTokenAmount

SpecFmt == InitFmt /\ [][NextFmt]_vars

---------------------------------------------------------------------------
(* Properties of handleAddress and analyzeToken.                           *)

\* the account lookup of handleAddress returned an account
AccountPresent == decodable /\ ~acc.err /\ acc.result = "value"

\* analyzeToken was called and returned an analysis
TokenAnalysisSucceeded == HasData(acc) /\ ~tokenErr

\* the reply the decision policy of the specification chooses
PolicyReply ==
    IF TokenAnalysisSucceeded THEN "token"
    ELSE IF acc.Executable THEN "contract"
    ELSE IF HasData(acc) THEN "contract"
    ELSE "wallet"

\* C1: when handleAddress returns for an account the lookup gave, it has sent
\* exactly one reply, the one of the ordered policy: token analysis if the
\* account has data and analyzeToken succeeded, else contract if executable,
\* else contract if it has data, else wallet.
C1_ReplyFollowsPolicy ==
    (pc = "done" /\ AccountPresent) =>
        /\ Len(replies) = 1
        /\ replies[1].kind = PolicyReply

\* C2: no outcome of the account lookup makes handleAddress panic, and no
\* reply is ever sent when the lookup fails or gives no account.
C2_NoCrashNoReplyWhenAbsent ==
    /\ panic = ""
    /\ (acc.err \/ acc.result # "value") => replies = << >>

\* the analysis has been built (the return of line 329)
AnalysisBuilt == pc \in {"sendTokenAnalysis", "done"} /\ TokenAnalysisSucceeded

RECURSIVE SumAmounts(_)
SumAmounts(hs) == IF hs = << >> THEN 0 ELSE Head(hs).Amount + SumAmounts(Tail(hs))

RECURSIVE SumPercents(_)
SumPercents(hs) ==
    IF hs = << >> THEN Float(0) ELSE FloatAdd(Head(hs).Percent, SumPercents(Tail(hs)))

AtMost100(x) == x.kind = "fraction" /\ x.num <= 100 * x.den

\* C5: TotalSupply is the exact sum of the parsed amounts, so no holder has
\* more than TotalSupply and, when it is not 0, the holders' percentages and
\* InsiderPercent are at most 100.
C5_TotalSupplyIsExactSum ==
    AnalysisBuilt =>
        /\ analysis.TotalSupply = SumAmounts(holders)
        /\ \A k \in 1..Len(holders) : holders[k].Amount <= analysis.TotalSupply
        /\ analysis.TotalSupply > 0 =>
              /\ AtMost100(SumPercents(holders))
              /\ AtMost100(analysis.InsiderPercent)

IsZero(x) == x.kind = "fraction" /\ x.num = 0

\* C6: when every parsed amount is 0 (so that the sampled total is 0), every
\* holder's percentage is exactly 0 and so is InsiderPercent.
C6_ZeroSupplyGivesZeroPercent ==
    (AnalysisBuilt /\ \A k \in 1..Len(holders) : holders[k].Amount = 0) =>
        /\ \A k \in 1..Len(holders) : IsZero(holders[k].Percent)
        /\ IsZero(analysis.InsiderPercent)

\* analyzeToken is past the parsing of the decimals
DecimalsParsed ==
    pc \in {"largestAccounts", "sort", "analysis", "sendTokenAnalysis"}

\* C9: decimals is the byte at offset 44 of the mint data when the data has at
\* least 45 bytes and 0 otherwise, and the data is never read past its end.
C9_DecimalsFromOffset44 ==
    /\ panic # "index out of range"
    /\ DecimalsParsed =>
          decimals = IF mintAcc.result = "value" /\ Len(mintAcc.Data) >= 45
                     THEN mintAcc.Data[45]
                     ELSE 0

\* x and y are the same number, or the same special value
SameValue(x, y) ==
    /\ x.kind = y.kind
    /\ x.kind = "fraction" => x.num * y.den = y.num * x.den

\* the holders have been sorted (line 305)
HoldersSorted == pc \in {"analysis", "sendTokenAnalysis"}

\* C10: after the sort the holders are in non-increasing order of amount and
\* holders of equal amounts are in their fetch order; TopHolders is the first
\* min(5, count) of them and InsiderPercent the sum of their percentages.
C10_SortedStableTopFive ==
    /\ HoldersSorted =>
          \A i, j \in 1..Len(holders) :
              i < j =>
                 /\ holders[i].Amount >= holders[j].Amount
                 /\ holders[i].Amount = holders[j].Amount =>
                        holders[i].Address < holders[j].Address
    /\ pc = "sendTokenAnalysis" =>
          LET n == IF Len(holders) < 5 THEN Len(holders) ELSE 5
          IN  /\ analysis.TopHolders = SubSeq(holders, 1, n)
              /\ SameValue(analysis.InsiderPercent, SumPercents(SubSeq(holders, 1, n)))

---------------------------------------------------------------------------
(* Properties of calculateBundlingScore.                                   *)

\* the amount at Go index i is strictly between 0.8 and 1.2 times the
\* amount at index 0
RatioWithinBounds(hs, i) ==
    /\ hs[1].Amount # 0
    /\ 10 * hs[i + 1].Amount > 8 * hs[1].Amount
    /\ 10 * hs[i + 1].Amount < 12 * hs[1].Amount

SimilarHolders(hs) ==
    { i \in 1..9 : i <= Len(hs) - 1 /\ RatioWithinBounds(hs, i) }

\* C7: for a holder list sorted by descending amount the score is a tenth of
\* the number of holders at indices 1..min(9, n-1) whose amount is strictly
\* between 0.8 and 1.2 times the largest; it lies within [0, 0.9] and is 0
\* for fewer than 2 holders.
C7_BundlingScore ==
    pc = "scored" =>
        /\ score.kind = "fraction"
        /\ score.den > 0
        /\ 10 * score.num = Cardinality(SimilarHolders(sorted)) * score.den
        /\ score.num >= 0
        /\ 10 * score.num <= 9 * score.den
        /\ Len(sorted) < 2 => score.num = 0

\* C7 witness: more than ten holders, the largest amount not 0, some holder
\* on the bound 0.8 and nine counted: the score is 0.9
C7_Witness ==
    /\ pc = "scored"
    /\ Len(sorted) = 11
    /\ sorted[1].Amount = 5
    /\ sorted[11].Amount = 4
    /\ score.num * 10 = 9 * score.den

---------------------------------------------------------------------------
(* Properties of formatTokenAmount.                                        *)

\* the integer part of n / 10^d; an amount of the model has at most 10
\* digits, so that it is smaller than 10^d for every d above 9
IntegerPart(n, d) == IF d <= 9 THEN n \div (10 ^ d) ELSE 0

\* the fractional part of n / 10^d, as the numerator over 10^d
FractionalPart(n, d) == IF d <= 9 THEN n % (10 ^ d) ELSE n

\* the digits of n in groups of three separated by commas
RECURSIVE Grouped(_)
Grouped(n) ==
    IF n < 1000 THEN FormatUint(n)
    ELSE Grouped(n \div 1000) \o << "," >>
         \o << DigitChars[((n \div 100) % 10) + 1],
               DigitChars[((n \div 10) % 10) + 1],
               DigitChars[(n % 10) + 1] >>

\* the d fractional digits of f / 10^d without the trailing zeros
RECURSIVE FractionDigits(_, _)
FractionDigits(f, d) ==
    IF f = 0 THEN << >>
    ELSE IF f % 10 = 0 THEN FractionDigits(f \div 10, d - 1)
    ELSE [k \in 1..(d - Len(FormatUint(f))) |-> "0"] \o FormatUint(f)

DecimalRendering(n, d) ==
    Grouped(IntegerPart(n, d))
    \o (IF FractionalPart(n, d) = 0 THEN << >>
        ELSE << "." >> \o FractionDigits(FractionalPart(n, d), d))

\* C8: formatTokenAmount gives the decimal rendering of amount / 10^decimals:
\* the integer part in groups of three digits separated by commas, then a
\* point and the fractional digits without trailing zeros, and no point when
\* the fraction is zero; (1234500, 4) gives 123.45.
C8_DecimalRendering ==
    pc = "formatted" =>
        /\ formatted = DecimalRendering(amount, fmtDecimals)
        /\ (amount = 1234500 /\ fmtDecimals = 4) =>
               formatted = << "1", "2", "3", ".", "4", "5" >>
        /\ (amount = 100 /\ fmtDecimals = 0) => formatted = << "1", "0", "0" >>
        /\ (amount = 5 /\ fmtDecimals = 6) =>
               formatted = << "0", ".", "0", "0", "0", "0", "0", "5" >>

\* C8 witness: an amount whose integer part needs a comma and whose fraction
\* is all zeros has been formatted
C8_Witness ==
    /\ pc = "formatted"
    /\ amount = 1234500
    /\ fmtDecimals = 2
    /\ formatted = << "1", "2", ",", "3", "4", "5" >>

===========================================================================
